---- MODULE Spec2Model ----
(***************************************************************************)
(* Model of backend/app/config.py (Settings.get_hostaway_tokens,           *)
(* Settings.get_hostaway_token_for_city) and of                            *)
(* backend/app/core/tenant_resolver.py (TenantResolver).                   *)
(*                                                                         *)
(* Python strings are sequences of one-character strings, so that split,   *)
(* strip, upper, slicing and JSON decoding are computed character by       *)
(* character.  Python values are tagged records [kind, val].               *)
(***************************************************************************)
EXTENDS Integers, Sequences, FiniteSets, TLC

\* ------------------------------------------------------------------ bounds

\* Longest TokenBlob enumerated exhaustively over Alphabet.
MaxLen == 4

\* logger.debug(f"HOSTAWAY_TOKENS preview: {self.hostaway_tokens[:100]}...")
PreviewLen == 100

\* ------------------------------------------------------------ Python values

NoneVal == [kind |-> "none", val |-> 0]
StrVal(s) == [kind |-> "str", val |-> s]
NumVal(n) == [kind |-> "num", val |-> n]
BoolVal(b) == [kind |-> "bool", val |-> b]
ListVal(l) == [kind |-> "list", val |-> l]
DictVal(d) == [kind |-> "dict", val |-> d]

\* The empty dict: a function with an empty domain.
EmptyDict == [k \in {} |-> NoneVal]

\* d[k] = v of a Python dict: a later insertion of the same key overwrites.
DictPut(d, k, v) == [x \in (DOMAIN d) \cup {k} |-> IF x = k THEN v ELSE d[x]]

\* dict.get(k): None when the key is missing.
DictGet(d, k) == IF k \in DOMAIN d THEN d[k] ELSE NoneVal

\* bool(v): the truth value Python's `if v:` and `if not v:` test.
Truthy(v) ==
    CASE v.kind = "none" -> FALSE
      [] v.kind = "str"  -> Len(v.val) > 0
      [] v.kind = "num"  -> v.val # 0
      [] v.kind = "bool" -> v.val
      [] v.kind = "list" -> Len(v.val) > 0
      [] v.kind = "dict" -> DOMAIN v.val # {}

\* Whether len(v) is defined; len() of None, a number or a bool raises TypeError.
HasLen(v) == v.kind \in {"str", "list", "dict"}

\* Whether v.keys() is defined; on anything but a dict it raises AttributeError.
HasKeys(v) == v.kind = "dict"

\* ------------------------------------------------------------------ strings

LowerCase == <<"a","b","c","d","e","f","g","h","i","j","k","l","m",
               "n","o","p","q","r","s","t","u","v","w","x","y","z">>
UpperCase == <<"A","B","C","D","E","F","G","H","I","J","K","L","M",
               "N","O","P","Q","R","S","T","U","V","W","X","Y","Z">>

UpperChar(c) ==
    IF \E i \in 1..Len(LowerCase) : LowerCase[i] = c
    THEN UpperCase[CHOOSE i \in 1..Len(LowerCase) : LowerCase[i] = c]
    ELSE c

\* str.upper()
Upper(s) == [i \in 1..Len(s) |-> UpperChar(s[i])]

\* s[:n]
Prefix(s, n) == SubSeq(s, 1, IF Len(s) < n THEN Len(s) ELSE n)

\* Index of the first occurrence of c in s at or after i, 0 when there is none.
RECURSIVE Find(_, _, _)
Find(s, c, i) ==
    IF i > Len(s) THEN 0
    ELSE IF s[i] = c THEN i
    ELSE Find(s, c, i + 1)

\* str.strip() over the whitespace the blobs hold (the space).
RECURSIVE LStrip(_)
LStrip(s) == IF Len(s) > 0 /\ s[1] = " " THEN LStrip(Tail(s)) ELSE s

RECURSIVE RStrip(_)
RStrip(s) ==
    IF Len(s) > 0 /\ s[Len(s)] = " " THEN RStrip(SubSeq(s, 1, Len(s) - 1)) ELSE s

Strip(s) == RStrip(LStrip(s))

\* s.split(" "): every single space separates, empty pieces are kept.
RECURSIVE Split(_, _)
Split(s, sep) ==
    LET p == Find(s, sep, 1)
    IN  IF p = 0 THEN <<s>>
        ELSE <<SubSeq(s, 1, p - 1)>> \o Split(SubSeq(s, p + 1, Len(s)), sep)

\* Index of the last occurrence of c in s, 0 when there is none.
RECURSIVE FindLast(_, _, _)
FindLast(s, c, i) ==
    IF i = 0 THEN 0
    ELSE IF s[i] = c THEN i
    ELSE FindLast(s, c, i - 1)

\* A split at the last separator, as part.rsplit(":", 1) would do.
SplitLast(s, sep) ==
    LET p == FindLast(s, sep, Len(s))
    IN  <<SubSeq(s, 1, p - 1), SubSeq(s, p + 1, Len(s))>>

\* part.split(":", 1): at the first separator only.
SplitFirst(s, sep) ==
    LET p == Find(s, sep, 1)
    IN  <<SubSeq(s, 1, p - 1), SubSeq(s, p + 1, Len(s))>>

\* s occurs in text as a contiguous run of characters.
Contains(text, s) ==
    \E i \in 1..(Len(text) - Len(s) + 1) : SubSeq(text, i, i + Len(s) - 1) = s

\* --------------------------------------------------------------- json.loads
\* The decoder of the standard library on the fragment of JSON the blobs can
\* hold: objects, arrays, strings without escapes, unsigned integers, null,
\* true, false, and spaces as whitespace.

Digits == <<"0","1","2","3","4","5","6","7","8","9">>
IsDigit(c) == \E i \in 1..10 : Digits[i] = c
DigitVal(c) == (CHOOSE i \in 1..10 : Digits[i] = c) - 1

JsonFail == [ok |-> FALSE, val |-> NoneVal, next |-> 0]
JsonOk(v, n) == [ok |-> TRUE, val |-> v, next |-> n]

RECURSIVE SkipWs(_, _)
SkipWs(s, i) == IF i <= Len(s) /\ s[i] = " " THEN SkipWs(s, i + 1) ELSE i

\* A string starting at the quote s[i].
ScanString(s, i) ==
    LET q == Find(s, "\"", i + 1)
    IN  IF q = 0 THEN JsonFail ELSE JsonOk(StrVal(SubSeq(s, i + 1, q - 1)), q + 1)

\* The digits from i on: (0|[1-9][0-9]*).
RECURSIVE ScanDigits(_, _, _)
ScanDigits(s, i, acc) ==
    IF i <= Len(s) /\ IsDigit(s[i])
    THEN ScanDigits(s, i + 1, 10 * acc + DigitVal(s[i]))
    ELSE JsonOk(NumVal(acc), i)

ScanNumber(s, i) ==
    IF s[i] = "0" THEN JsonOk(NumVal(0), i + 1) ELSE ScanDigits(s, i, 0)

StartsWith(s, i, word) ==
    /\ i + Len(word) - 1 <= Len(s)
    /\ SubSeq(s, i, i + Len(word) - 1) = word

RECURSIVE ScanValue(_, _)
RECURSIVE ScanMembers(_, _, _)
RECURSIVE ScanElements(_, _, _)

\* scan_once(s, i): the value that starts at s[i].
ScanValue(s, i) ==
    IF i > Len(s) THEN JsonFail
    ELSE IF s[i] = "\"" THEN ScanString(s, i)
    ELSE IF s[i] = "{" THEN
        LET j == SkipWs(s, i + 1)
        IN  IF j <= Len(s) /\ s[j] = "}" THEN JsonOk(DictVal(EmptyDict), j + 1)
            ELSE ScanMembers(s, j, EmptyDict)
    ELSE IF s[i] = "[" THEN
        LET j == SkipWs(s, i + 1)
        IN  IF j <= Len(s) /\ s[j] = "]" THEN JsonOk(ListVal(<<>>), j + 1)
            ELSE ScanElements(s, j, <<>>)
    ELSE IF StartsWith(s, i, <<"n","u","l","l">>) THEN JsonOk(NoneVal, i + 4)
    ELSE IF StartsWith(s, i, <<"t","r","u","e">>) THEN JsonOk(BoolVal(TRUE), i + 4)
    ELSE IF StartsWith(s, i, <<"f","a","l","s","e">>) THEN JsonOk(BoolVal(FALSE), i + 5)
    ELSE IF IsDigit(s[i]) THEN ScanNumber(s, i)
    ELSE JsonFail

\* JSONObject: "key" : value, then "," and the next member, or "}".
ScanMembers(s, i, acc) ==
    IF i > Len(s) \/ s[i] # "\"" THEN JsonFail
    ELSE LET k == ScanString(s, i)
         IN  IF ~k.ok THEN JsonFail
             ELSE LET c == SkipWs(s, k.next)
                  IN  IF c > Len(s) \/ s[c] # ":" THEN JsonFail
                      ELSE LET v == ScanValue(s, SkipWs(s, c + 1))
                           IN  IF ~v.ok THEN JsonFail
                               ELSE LET e == SkipWs(s, v.next)
                                        d == DictPut(acc, k.val.val, v.val)
                                    IN  IF e > Len(s) THEN JsonFail
                                        ELSE IF s[e] = "}" THEN JsonOk(DictVal(d), e + 1)
                                        ELSE IF s[e] = "," THEN ScanMembers(s, SkipWs(s, e + 1), d)
                                        ELSE JsonFail

\* JSONArray: value, then "," and the next element, or "]".
ScanElements(s, i, acc) ==
    LET v == ScanValue(s, i)
    IN  IF ~v.ok THEN JsonFail
        ELSE LET e == SkipWs(s, v.next)
                 l == Append(acc, v.val)
             IN  IF e > Len(s) THEN JsonFail
                 ELSE IF s[e] = "]" THEN JsonOk(ListVal(l), e + 1)
                 ELSE IF s[e] = "," THEN ScanElements(s, SkipWs(s, e + 1), l)
                 ELSE JsonFail

\* json.loads(s): [ok |-> FALSE] stands for JSONDecodeError; anything after
\* the value but whitespace is "Extra data".
JsonLoads(s) ==
    LET v == ScanValue(s, SkipWs(s, 1))
    IN  IF v.ok /\ SkipWs(s, v.next) = Len(s) + 1 THEN v ELSE JsonFail

\* ------------------------------------------------- Settings.get_hostaway_tokens

\* One diagnostic (a logger call or a print): what it interpolates.
Diag(level, msg, text, keys, n) ==
    [level |-> level, msg |-> msg, text |-> text, keys |-> keys, n |-> n]

\* len(v) of a str, a list or a dict.
PyLen(v) == IF v.kind = "dict" THEN Cardinality(DOMAIN v.val) ELSE Len(v.val)

\* for part in parts: if ":" in part: key, value = part.split(":", 1);
\* tokens[key] = value
RECURSIVE LegacyTokens(_, _)
LegacyTokens(parts, tokens) ==
    IF parts = <<>> THEN tokens
    ELSE LET part == Head(parts)
             kv == SplitFirst(part, ":")
         IN  LegacyTokens(Tail(parts),
                          IF Find(part, ":", 1) # 0
                          THEN DictPut(tokens, kv[1], StrVal(kv[2]))
                          ELSE tokens)

\* parts = self.hostaway_tokens.strip().split(" ") and the loop over them.
LegacyParse(text) == LegacyTokens(Split(Strip(text), " "), EmptyDict)

\* The head of the method, run on every non-empty blob: the two debug lines.
BlobDiags(text) ==
    << Diag("debug", "HOSTAWAY_TOKENS length", <<>>, {}, Len(text)),
       Diag("debug", "HOSTAWAY_TOKENS preview", Prefix(text, PreviewLen), {}, 0) >>

\* except Exception as e: the two error lines, the second with the raw value.
UnexpectedDiags(text) ==
    << Diag("error", "Unexpected error parsing HOSTAWAY_TOKENS", <<>>, {}, 0),
       Diag("error", "Raw value", text, {}, 0) >>

\* get_hostaway_tokens(self), as [tokens |-> the dict returned, log |-> the
\* diagnostics emitted], for the value `blob` of self.hostaway_tokens.
get_hostaway_tokens(blob) ==
    IF ~Truthy(blob)
    THEN [tokens |-> EmptyDict,
          log |-> << Diag("warning", "HOSTAWAY_TOKENS is empty or not set", <<>>, {}, 0) >>]
    ELSE
      LET text == blob.val
          js == JsonLoads(text)
      IN  IF js.ok
          THEN IF HasLen(js.val) /\ HasKeys(js.val)
               THEN [tokens |-> js.val.val,
                     log |-> BlobDiags(text) \o
                        << Diag("debug", "Successfully parsed tokens as JSON", <<>>,
                                DOMAIN js.val.val, PyLen(js.val)) >>]
               ELSE [tokens |-> EmptyDict,
                     log |-> BlobDiags(text) \o UnexpectedDiags(text)]
          ELSE LET tokens == LegacyParse(text)
                   tried == BlobDiags(text) \o
                        << Diag("debug", "Failed to parse as JSON", <<>>, {}, 0) >>
               IN  IF DOMAIN tokens # {}
                   THEN [tokens |-> tokens,
                         log |-> tried \o
                            << Diag("debug", "Successfully parsed tokens from space-separated format",
                                    <<>>, DOMAIN tokens, Cardinality(DOMAIN tokens)) >>]
                   ELSE [tokens |-> EmptyDict,
                         log |-> tried \o
                            << Diag("error", "Could not parse tokens in any known format",
                                    <<>>, {}, 0) >>]

\* -------------------------------------------------------------------- inputs

KeyPrefix == <<"H","O","S","T","A","W","A","Y","_","A","P","I","_">>

\* token_key = f"HOSTAWAY_API_{city.upper()}"
TokenKey(c) == KeyPrefix \o Upper(c)

london == <<"l","o","n","d","o","n">>
paris == <<"p","a","r","i","s">>
abc123 == <<"a","b","c","1","2","3">>
xyz789 == <<"x","y","z","7","8","9">>

\* The cities asked for: one letter in both cases, and the two named ones.
Cities == { <<"l">>, <<"L">>, london, paris }

\* '{"HOSTAWAY_API_LONDON":"abc123"}'
JsonLondonBlob ==
    <<"{", "\"">> \o TokenKey(london) \o <<"\"", ":", "\"">> \o abc123 \o <<"\"", "}">>

\* "HOSTAWAY_API_LONDON:abc123 HOSTAWAY_API_PARIS:xyz789"
LegacyTwoBlob ==
    TokenKey(london) \o <<":">> \o abc123 \o <<" ">> \o TokenKey(paris) \o <<":">> \o xyz789

\* Blobs that hold real keys, in both formats and malformed.
SampleBlobs ==
    { JsonLondonBlob,
      LegacyTwoBlob,
      \* '{"HOSTAWAY_API_L":1}'
      <<"{", "\"">> \o TokenKey(<<"l">>) \o <<"\"", ":", "1", "}">>,
      \* '{"HOSTAWAY_API_L":"a", "HOSTAWAY_API_LONDON":null}'
      <<"{", "\"">> \o TokenKey(<<"l">>) \o <<"\"", ":", "\"", "a", "\"", ",", " ", "\"">>
          \o TokenKey(london) \o <<"\"", ":", "n", "u", "l", "l", "}">>,
      \* '["HOSTAWAY_API_L"]'
      <<"[", "\"">> \o TokenKey(<<"l">>) \o <<"\"", "]">>,
      \* '{"HOSTAWAY_API_L":"a"' (truncated)
      <<"{", "\"">> \o TokenKey(<<"l">>) \o <<"\"", ":", "\"", "a", "\"">>,
      \* "HOSTAWAY_API_L:a:b"
      TokenKey(<<"l">>) \o <<":", "a", ":", "b">>,
      \* "HOSTAWAY_API_l:a"
      KeyPrefix \o <<"l", ":", "a">>,
      \* "HOSTAWAY_API_L:"
      TokenKey(<<"l">>) \o <<":">>,
      \* " HOSTAWAY_API_L:a  x HOSTAWAY_API_L:b "
      <<" ">> \o TokenKey(<<"l">>) \o <<":", "a", " ", " ", "x", " ">>
          \o TokenKey(<<"l">>) \o <<":", "b", " ">> }

\* The characters of the exhaustively enumerated blobs.
Alphabet == {"a", ":", " ", "1", "{", "}", "\""}

\* Every string over Alphabet of length at most n.
AllStrings(n) == UNION { [1..k -> Alphabet] : k \in 0..n }

\* The values self.hostaway_tokens can hold: None (unset) or a string.
Blobs == {NoneVal} \cup { StrVal(s) : s \in AllStrings(MaxLen) \cup SampleBlobs }

\* Blobs of the two-call comparison: the samples and the shortest strings.
BridgeLen == 2
BridgeBlobs == {NoneVal} \cup { StrVal(s) : s \in AllStrings(BridgeLen) \cup SampleBlobs }

\* What asyncio.get_event_loop() finds on the calling thread: a running loop,
\* a loop that is not running, or none (it raises RuntimeError).
LoopStates == {"running", "stopped", "none"}

\* What the Token Service can yield when it completes without raising.
ServiceValues == { NoneVal, StrVal(<<"s", "v", "c">>) }

\* --------------------------------------------------------------------- state

VARIABLES
    hostaway_tokens,  \* Settings.hostaway_tokens
    pc,               \* where the call of get_hostaway_token_for_city stands
    city,             \* its argument
    loop,             \* the event loop state of its calling thread
    runner,           \* the thread that runs the coroutine: caller or worker
    svc,              \* the Token Service call: idle, called, returned, raised, never
    svcValue,         \* the value the Token Service yielded
    retval,           \* the value the call returned
    tokens,           \* local `tokens`
    token_key,        \* local `token_key`
    log,              \* the diagnostics of the call so far
    delegations,      \* Token Service calls made by the call
    parses,           \* get_hostaway_tokens() calls made by the call
    prev,             \* the last recorded call made without a running loop
    payload,          \* the dict handed to the TenantResolver
    from_token,       \* result of resolve_tenant_from_token(payload)
    from_user         \* result of resolve_tenant_from_user(payload)

callVars == <<pc, city, loop, runner, svc, svcValue, retval, tokens, token_key,
              log, delegations, parses>>
tenantVars == <<payload, from_token, from_user>>
vars == <<hostaway_tokens, callVars, prev, tenantVars>>

\* A result not computed yet.
Unset == [kind |-> "unset", val |-> 0]

NoPrev == [city |-> <<>>, pc |-> "none", retval |-> NoneVal]

Finished == pc \in {"returned", "raised"}

\* No call in progress.
Idle ==
    /\ pc = "idle"
    /\ city = <<>>
    /\ loop = "none"
    /\ runner = "none"
    /\ svc = "idle"
    /\ svcValue = NoneVal
    /\ retval = NoneVal
    /\ tokens = EmptyDict
    /\ token_key = <<>>
    /\ log = <<>>
    /\ delegations = 0
    /\ parses = 0

\* The locals of a call are dropped.
Reset ==
    /\ pc' = "idle"
    /\ city' = <<>>
    /\ loop' = "none"
    /\ runner' = "none"
    /\ svc' = "idle"
    /\ svcValue' = NoneVal
    /\ retval' = NoneVal
    /\ tokens' = EmptyDict
    /\ token_key' = <<>>
    /\ log' = <<>>
    /\ delegations' = 0
    /\ parses' = 0

\* print(f"ERROR: Failed to get token from Token Management: {str(e)}")
DelegationFailedDiag ==
    Diag("print", "Failed to get token from Token Management", <<>>, {}, 0)

\* ------------------------------------- Settings.get_hostaway_token_for_city

\* get_hostaway_token_for_city(self, city) is entered.
Call(c, l) ==
    /\ pc = "idle"
    /\ pc' = "get_service"
    /\ city' = c
    /\ loop' = l
    /\ UNCHANGED <<hostaway_tokens, runner, svc, svcValue, retval, tokens,
                   token_key, log, delegations, parses, prev, tenantVars>>

\* from app.core.token_service import get_token_service;
\* token_service = get_token_service(): outside the try, so a failure to
\* import or to build the service leaves the method as an exception.
GetTokenService ==
    /\ pc = "get_service"
    /\ \/ pc' = "get_loop"
       \/ pc' = "raised"
    /\ UNCHANGED <<hostaway_tokens, city, loop, runner, svc, svcValue, retval,
                   tokens, token_key, log, delegations, parses, prev, tenantVars>>

\* loop = asyncio.get_event_loop(); if loop.is_running(): ... else: ...
\* With no loop get_event_loop() raises RuntimeError, caught by the except.
GetEventLoop ==
    /\ pc = "get_loop"
    /\ \/ /\ loop = "running"
          /\ pc' = "submit"
          /\ log' = log
       \/ /\ loop = "stopped"
          /\ pc' = "run"
          /\ log' = log
       \/ /\ loop = "none"
          /\ pc' = "fallback"
          /\ log' = Append(log, DelegationFailedDiag)
    /\ UNCHANGED <<hostaway_tokens, city, loop, runner, svc, svcValue, retval,
                   tokens, token_key, delegations, parses, prev, tenantVars>>

\* future = executor.submit(asyncio.run, token_service.get_hostaway_token_for_city(city)):
\* the worker thread runs the coroutine on a loop of its own; a submit that
\* raises is caught by the except.
Submit ==
    /\ pc = "submit"
    /\ delegations' = delegations + 1
    /\ \/ /\ pc' = "await_future"
          /\ svc' = "called"
          /\ runner' = "worker"
          /\ log' = log
       \/ /\ pc' = "fallback"
          /\ log' = Append(log, DelegationFailedDiag)
          /\ UNCHANGED <<svc, runner>>
    /\ UNCHANGED <<hostaway_tokens, city, loop, svcValue, retval, tokens,
                   token_key, parses, prev, tenantVars>>

\* asyncio.run(token_service.get_hostaway_token_for_city(city)) on the caller.
AsyncioRun ==
    /\ pc = "run"
    /\ pc' = "await_run"
    /\ svc' = "called"
    /\ runner' = "caller"
    /\ delegations' = delegations + 1
    /\ UNCHANGED <<hostaway_tokens, city, loop, svcValue, retval, tokens,
                   token_key, log, parses, prev, tenantVars>>

\* The external Token Service: it returns a value, raises, or never completes.
ServiceReturns(v) ==
    /\ svc = "called"
    /\ svc' = "returned"
    /\ svcValue' = v
    /\ UNCHANGED <<hostaway_tokens, pc, city, loop, runner, retval, tokens,
                   token_key, log, delegations, parses, prev, tenantVars>>

ServiceRaises ==
    /\ svc = "called"
    /\ svc' = "raised"
    /\ UNCHANGED <<hostaway_tokens, pc, city, loop, runner, svcValue, retval,
                   tokens, token_key, log, delegations, parses, prev, tenantVars>>

ServiceHangs ==
    /\ svc = "called"
    /\ svc' = "never"
    /\ UNCHANGED <<hostaway_tokens, pc, city, loop, runner, svcValue, retval,
                   tokens, token_key, log, delegations, parses, prev, tenantVars>>

\* A worker whose exception is lost: the caller gets a value in every case.
future_result_swallowed(s) == "returned"

\* return future.result(): the worker's value, or its exception raised again
\* in the caller, where the except catches it.  No timeout is passed.
future_result(s) == IF s = "returned" THEN "returned" ELSE "fallback"

\* A delegation that also falls back when the service yields no token.
run_result_none_falls_back(s) ==
    IF s = "returned" /\ Truthy(svcValue) THEN "returned" ELSE "fallback"

\* return asyncio.run(...): the coroutine's value, or its exception.
run_result(s) == IF s = "returned" THEN "returned" ELSE "fallback"

\* The delegation ends: the try block returns, or the except is entered.
Delegated(at, next) ==
    /\ pc = at
    /\ svc \in {"returned", "raised"}
    /\ pc' = next
    /\ retval' = IF next = "returned" THEN svcValue ELSE retval
    /\ log' = IF next = "returned" THEN log ELSE Append(log, DelegationFailedDiag)
    /\ UNCHANGED <<hostaway_tokens, city, loop, runner, svc, svcValue, tokens,
                   token_key, delegations, parses, prev, tenantVars>>

FutureResult == Delegated("await_future", future_result(svc))

RunResult == Delegated("await_run", run_result(svc))

\* except Exception: tokens = self.get_hostaway_tokens(); if not tokens:
\* return None; token_key = f"HOSTAWAY_API_{city.upper()}"
Fallback ==
    /\ pc = "fallback"
    /\ LET r == get_hostaway_tokens(hostaway_tokens)
       IN  /\ log' = log \o r.log
           /\ parses' = parses + 1
           /\ IF DOMAIN r.tokens = {}
              THEN /\ pc' = "returned"
                   /\ retval' = NoneVal
                   /\ UNCHANGED <<tokens, token_key>>
              ELSE /\ pc' = "lookup"
                   /\ tokens' = r.tokens
                   /\ token_key' = TokenKey(city)
                   /\ retval' = retval
    /\ UNCHANGED <<hostaway_tokens, city, loop, runner, svc, svcValue,
                   delegations, prev, tenantVars>>

\* The diagnostics of a lookup that ends without an exception.
LookupDiags(token) ==
    IF Truthy(token)
    THEN << Diag("print", "Found token for city", city, {}, PyLen(token)) >>
    ELSE << Diag("print", "No token found for city with key", city \o token_key, {}, 0),
            Diag("print", "Available token keys are", <<>>, DOMAIN tokens, 0) >>

\* print(... available keys ...); token = tokens.get(token_key);
\* if token: print(f"... (length: {len(token)})") else: ...; return token.
\* len() of a token that is not a string, list or dict raises TypeError.
Lookup ==
    /\ pc = "lookup"
    /\ LET token == DictGet(tokens, token_key)
           looking == Diag("print", "Looking for token key in available keys",
                           token_key, DOMAIN tokens, 0)
       IN  IF Truthy(token) /\ ~HasLen(token)
           THEN /\ pc' = "raised"
                /\ log' = Append(log, looking)
                /\ retval' = retval
           ELSE /\ pc' = "returned"
                /\ log' = Append(log, looking) \o LookupDiags(token)
                /\ retval' = token
    /\ UNCHANGED <<hostaway_tokens, city, loop, runner, svc, svcValue, tokens,
                   token_key, delegations, parses, prev, tenantVars>>

\* The call is over; the next one starts from fresh locals.
Finish ==
    /\ Finished
    /\ Reset
    /\ UNCHANGED <<hostaway_tokens, prev, tenantVars>>

\* The call is over and, when it reached the fallback with no loop running on
\* its thread, is remembered for the comparison with a later call.
FinishRecorded ==
    /\ Finished
    /\ Reset
    /\ prev' = IF loop # "running" /\ parses = 1
               THEN [city |-> city, pc |-> pc, retval |-> retval]
               ELSE prev
    /\ UNCHANGED <<hostaway_tokens, tenantVars>>

\* ------------------------------------------------------------ TenantResolver

\* token_payload[key].get('tenant_id') of a metadata dict.
MetaTenant(p, key) == DictGet(p[key].val, "tenant_id")

\* The probe of resolve_tenant_from_token with the root level tried first.
resolve_tenant_from_token_top_first(p) ==
    IF Truthy(DictGet(p, "tenant_id"))
    THEN DictGet(p, "tenant_id")
    ELSE IF "user_metadata" \in DOMAIN p /\ Truthy(MetaTenant(p, "user_metadata"))
    THEN MetaTenant(p, "user_metadata")
    ELSE IF "app_metadata" \in DOMAIN p /\ Truthy(MetaTenant(p, "app_metadata"))
    THEN MetaTenant(p, "app_metadata")
    ELSE NoneVal

\* TenantResolver.resolve_tenant_from_token(token_payload)
resolve_tenant_from_token(p) ==
    IF "user_metadata" \in DOMAIN p /\ Truthy(MetaTenant(p, "user_metadata"))
    THEN MetaTenant(p, "user_metadata")
    ELSE IF "app_metadata" \in DOMAIN p /\ Truthy(MetaTenant(p, "app_metadata"))
    THEN MetaTenant(p, "app_metadata")
    ELSE IF Truthy(DictGet(p, "tenant_id"))
    THEN DictGet(p, "tenant_id")
    ELSE NoneVal

\* The probe of resolve_tenant_from_user with user_metadata tried first.
resolve_tenant_from_user_meta_first(p) ==
    IF "user_metadata" \in DOMAIN p /\ Truthy(MetaTenant(p, "user_metadata"))
    THEN MetaTenant(p, "user_metadata")
    ELSE IF "tenant_id" \in DOMAIN p
    THEN p["tenant_id"]
    ELSE IF "app_metadata" \in DOMAIN p /\ Truthy(MetaTenant(p, "app_metadata"))
    THEN MetaTenant(p, "app_metadata")
    ELSE NoneVal

\* TenantResolver.resolve_tenant_from_user(user_data)
resolve_tenant_from_user(p) ==
    IF "tenant_id" \in DOMAIN p
    THEN p["tenant_id"]
    ELSE IF "user_metadata" \in DOMAIN p /\ Truthy(MetaTenant(p, "user_metadata"))
    THEN MetaTenant(p, "user_metadata")
    ELSE IF "app_metadata" \in DOMAIN p /\ Truthy(MetaTenant(p, "app_metadata"))
    THEN MetaTenant(p, "app_metadata")
    ELSE NoneVal

TenantIds == { <<"t", "1">>, <<"t", "2">>, <<"t", "3">> }

\* A tenant_id entry: null, the empty string, or an identifier.
TenantValues == {NoneVal, StrVal(<<>>)} \cup { StrVal(t) : t \in TenantIds }

\* A metadata dict, with or without a tenant_id entry.
MetaValues ==
    {DictVal(EmptyDict)} \cup { DictVal([k \in {"tenant_id"} |-> v]) : v \in TenantValues }

PayloadKeys == {"tenant_id", "user_metadata", "app_metadata"}

\* Every payload: each of the three keys missing or present.
Payloads ==
    { [k \in S |-> f[k]] :
        S \in SUBSET PayloadKeys,
        f \in [tenant_id : TenantValues, user_metadata : MetaValues,
               app_metadata : MetaValues] }

ResolveTenantFromToken ==
    /\ from_token = Unset
    /\ from_token' = resolve_tenant_from_token(payload)
    /\ UNCHANGED <<hostaway_tokens, callVars, prev, payload, from_user>>

ResolveTenantFromUser ==
    /\ from_user = Unset
    /\ from_user' = resolve_tenant_from_user(payload)
    /\ UNCHANGED <<hostaway_tokens, callVars, prev, payload, from_token>>

\* ------------------------------------------------------------ specifications

NoTenantCall ==
    /\ payload = EmptyDict
    /\ from_token = Unset
    /\ from_user = Unset

\* The steps of a call but its last.
CallSteps ==
    \/ \E c \in Cities, l \in LoopStates : Call(c, l)
    \/ GetTokenService
    \/ GetEventLoop
    \/ Submit
    \/ AsyncioRun
    \/ \E v \in ServiceValues : ServiceReturns(v)
    \/ ServiceRaises
    \/ ServiceHangs
    \/ FutureResult
    \/ RunResult
    \/ Fallback
    \/ Lookup

\* Calls of get_hostaway_token_for_city, one after the other, on settings
\* loaded once.
Init ==
    /\ hostaway_tokens \in Blobs
    /\ Idle
    /\ prev = NoPrev
    /\ NoTenantCall

Next == CallSteps \/ Finish

Spec == Init /\ [][Next]_vars

\* The same calls, with the last fallback result of a call made outside a
\* running loop remembered.
BridgeInit ==
    /\ hostaway_tokens \in BridgeBlobs
    /\ Idle
    /\ prev = NoPrev
    /\ NoTenantCall

BridgeNext == CallSteps \/ FinishRecorded

BridgeSpec == BridgeInit /\ [][BridgeNext]_vars

\* The two TenantResolver functions applied to one payload.
TenantInit ==
    /\ hostaway_tokens = NoneVal
    /\ Idle
    /\ prev = NoPrev
    /\ payload \in Payloads
    /\ from_token = Unset
    /\ from_user = Unset

TenantNext == ResolveTenantFromToken \/ ResolveTenantFromUser

TenantSpec == TenantInit /\ [][TenantNext]_vars

\* -------------------------------------------------------------------- claims

\* The call reached its fallback: the delegation step failed.
FellBack == parses = 1

\* C1: no exception ever escapes get_hostaway_token_for_city: whatever the
\* city, the outcome of obtaining and calling the Token Service and the
\* content of the TokenBlob, the call ends by returning, never by raising.
C1_NoExceptionEscapes == pc # "raised"

\* C2: every call eventually returns, also when the Token Service call never
\* completes: the wait on the delegation is bounded and ends in the fallback,
\* so a call that waits on the delegation can always take a further step.
C2_CallAlwaysReturns == pc \in {"await_run", "await_future"} => ENABLED Next

\* C3: a call made while a loop runs on the calling thread does not deadlock
\* and, after a forced Token Service failure, ends exactly as the call for the
\* same city made without a running loop ended; the coroutine runs on the
\* worker and never on the caller's running loop, and the caller can always
\* take the worker's result once the service has completed.
C3_SameResultOnRunningLoop ==
    /\ (Finished /\ loop = "running" /\ svc = "raised"
            /\ prev.pc # "none" /\ prev.city = city)
        => (pc = prev.pc /\ retval = prev.retval)
    /\ (pc = "await_future" => (runner = "worker" /\ loop = "running"))
    /\ (loop = "running" => runner # "caller")
    /\ ((pc = "await_future" /\ svc \in {"returned", "raised"}) => ENABLED FutureResult)

\* C3 happens: a token found from a running loop after the same token was
\* found from a thread without a running loop.
C3_Witness ==
    /\ pc = "returned"
    /\ loop = "running"
    /\ svc = "raised"
    /\ prev.pc = "returned"
    /\ prev.city = city
    /\ retval = StrVal(abc123)
    /\ prev.retval = retval

\* A tenant_id entry that counts: a string that is not empty.
NonEmpty(v) == v.kind = "str" /\ v.val # <<>>

\* The three places of a payload, None where the place does not exist.
TopLevel(p) == IF "tenant_id" \in DOMAIN p THEN p["tenant_id"] ELSE NoneVal

InMeta(p, key) ==
    IF key \in DOMAIN p /\ "tenant_id" \in DOMAIN p[key].val
    THEN p[key].val["tenant_id"]
    ELSE NoneVal

\* The first non-empty value of a sequence of places, None when there is none.
FirstNonEmpty(places) ==
    IF \E i \in 1..Len(places) : NonEmpty(places[i])
    THEN places[CHOOSE i \in 1..Len(places) :
                    /\ NonEmpty(places[i])
                    /\ \A j \in 1..(i - 1) : ~NonEmpty(places[j])]
    ELSE NoneVal

\* A result read as the caller reads it: an empty result is "not found".
Found(v) == IF NonEmpty(v) THEN v ELSE NoneVal

\* C4: resolve_tenant_from_user treats a top-level tenant_id that is present
\* but null or empty as absent: it returns the first non-empty value in the
\* order top level, user_metadata, app_metadata, and None only when all three
\* are empty or missing.
C4_UserRecordSkipsEmptyTopLevel ==
    from_user # Unset =>
        Found(from_user) = FirstNonEmpty(<<TopLevel(payload), InMeta(payload, "user_metadata"),
                                    InMeta(payload, "app_metadata")>>)

C6_UserRecordPrefersTopLevel ==
    (/\ from_user # Unset
     /\ NonEmpty(TopLevel(payload))
     /\ "user_metadata" \in DOMAIN payload
     /\ "tenant_id" \in DOMAIN payload["user_metadata"].val)
    => /\ from_user = TopLevel(payload)
       /\ (from_token # Unset /\ NonEmpty(InMeta(payload, "user_metadata")))
            => from_token = InMeta(payload, "user_metadata")

\* C6 happens: both functions ran on a record whose two places differ, and
\* they disagree.
C6_Witness ==
    /\ from_user # Unset
    /\ from_token # Unset
    /\ NonEmpty(TopLevel(payload))
    /\ NonEmpty(InMeta(payload, "user_metadata"))
    /\ from_user = TopLevel(payload)
    /\ from_token = InMeta(payload, "user_metadata")
    /\ from_user # from_token

\* The token values the blob holds: the non-empty strings of its table.
Secrets(blob) ==
    LET t == get_hostaway_tokens(blob).tokens
    IN  { t[k].val : k \in { x \in DOMAIN t : NonEmpty(t[x]) } }

\* C7: no diagnostic of the parse or of the lookup carries a token value or a
\* raw part of the blob that includes one; key names and lengths only.
C7_NoSecretInDiagnostics ==
    \A i \in 1..Len(log) :
        \A secret \in Secrets(hostaway_tokens) : ~Contains(log[i].text, secret)

\* The pieces of a text between single spaces, as index ranges.
Pieces(text) ==
    { r \in (1..Len(text)) \X (1..Len(text)) :
        /\ r[1] <= r[2]
        /\ \A i \in r[1]..r[2] : text[i] # " "
        /\ (r[1] = 1 \/ text[r[1] - 1] = " ")
        /\ (r[2] = Len(text) \/ text[r[2] + 1] = " ") }

\* The place of the first colon of a piece, 0 when it has none.
FirstColon(text, r) ==
    IF \E c \in r[1]..r[2] : text[c] = ":"
    THEN CHOOSE c \in r[1]..r[2] :
            /\ text[c] = ":"
            /\ \A b \in r[1]..(c - 1) : text[b] # ":"
    ELSE 0

PieceKey(text, r) == SubSeq(text, r[1], FirstColon(text, r) - 1)
PieceToken(text, r) == SubSeq(text, FirstColon(text, r) + 1, r[2])

\* The table the legacy format denotes: one entry per piece with a colon,
\* the last piece of a key giving its token.
LegacyTable(text) ==
    LET pairs == { r \in Pieces(text) : FirstColon(text, r) # 0 }
        keys == { PieceKey(text, r) : r \in pairs }
        last(k) == CHOOSE r \in pairs :
                      /\ PieceKey(text, r) = k
                      /\ \A q \in pairs : PieceKey(text, q) = k => q[1] <= r[1]
    IN  [k \in keys |-> StrVal(PieceToken(text, last(k)))]

\* C8: when the blob is no JSON, the table is exactly the one of the legacy
\* format (pieces between single spaces, each split at its first colon,
\* pieces without a colon skipped), and no entry at all gives None; the
\* two-city blob gives two entries and "xyz789" for "paris".
C8_LegacyTable ==
    (FellBack /\ Truthy(hostaway_tokens) /\ ~JsonLoads(hostaway_tokens.val).ok)
    => /\ tokens = LegacyTable(hostaway_tokens.val)
       /\ (DOMAIN LegacyTable(hostaway_tokens.val) = {}
            => (pc = "returned" /\ retval = NoneVal))
       /\ hostaway_tokens = StrVal(LegacyTwoBlob)
            => /\ Cardinality(DOMAIN tokens) = 2
               /\ (Finished /\ city = paris) => (pc = "returned" /\ retval = StrVal(xyz789))

\* C8 happens: the lookup of "paris" in the two-city legacy blob.
C8_Witness ==
    /\ FellBack
    /\ hostaway_tokens = StrVal(LegacyTwoBlob)
    /\ city = paris
    /\ pc = "returned"
    /\ retval = StrVal(xyz789)

\* C9: after a failed delegation the call returns exactly the entry of the
\* freshly parsed table at "HOSTAWAY_API_" + uppercase(city), None when the
\* key is absent or the blob is empty or unset.
C9_ReturnsTableEntry ==
    (Finished /\ FellBack)
    => /\ pc = "returned"
       /\ retval = DictGet(get_hostaway_tokens(hostaway_tokens).tokens,
                           KeyPrefix \o Upper(city))

\* C10: the fallback is reached only after the delegation failed: a Token
\* Service call that completes without raising gives the call's result, with
\* the blob neither read nor parsed; a call makes at most one delegation
\* attempt and at most one fallback parse.
C10_FallbackOnlyAfterFailure ==
    /\ svc = "returned" => (parses = 0 /\ log = <<>> /\ pc \notin {"fallback", "lookup"})
    /\ (Finished /\ svc = "returned") => (pc = "returned" /\ retval = svcValue)
    /\ delegations <= 1
    /\ parses <= 1
    /\ (parses = 1 \/ pc \in {"fallback", "lookup"})
        => \/ svc = "raised"
           \/ svc = "idle" /\ loop = "none"
           \/ svc = "idle" /\ loop = "running" /\ delegations = 1

\* C10 happens: the service yields no token for a city the blob has a token
\* for, and the call returns the service's answer.
C10_Witness ==
    /\ pc = "returned"
    /\ svc = "returned"
    /\ svcValue = NoneVal
    /\ retval = NoneVal
    /\ hostaway_tokens = StrVal(JsonLondonBlob)
    /\ city = london
    /\ parses = 0

====
